---- MODULE Spec2Model ----
(***************************************************************************)
(* Supermarket billing: Inventory (linked list + hash index + lazy min-    *)
(* heap of (quantity, id)) and BillingSystem (cart, undo stack, discount   *)
(* slabs), driven by the handlers of App.                                  *)
(*                                                                         *)
(* Money is kept in hundredths of a rupee (the unit the program prints,    *)
(* "%.2f"): a price of Rs.50 is 5000.  With whole-rupee prices the 10% and *)
(* 5% discounts are whole numbers of hundredths, so they are exact.        *)
(***************************************************************************)
EXTENDS Integers, Sequences, FiniteSets, Bags, TLC

(* ---- bounds of the model ---- *)
MaxHeap == 5   \* handlers that would grow the heap past this are not taken
MaxK == 2      \* largest k asked of k_lowest_stock

(* ---- inputs the handlers are tried with ---- *)
PIDs == {1, 2}
AddForms ==    \* <<name, price, quantity>> typed into the Add Product form
  { <<"Rice", 10000, 0>>, <<"Rice", 10000, 2>>, <<"Dal", 25000, 1>>, <<"Dal", 25000, 2>>,
    <<"", 10000, 1>>, <<"Rice", -100, 1>>, <<"Rice", 10000, -1>> }
ReserveQtys == {0, 1, 2, 3}
CustomerNames == {"Asha"}
KValues == 0..MaxK

RicePIDs == {1}
RiceAddForms == { <<"Rice", 5000, 100>> }
RiceReserveQtys == {1, 10, 200}
RiceKValues == {5}

VARIABLES
  products,       \* the linked list head..tail, as the sequence to_list() walks
  index,          \* Inventory.index: id -> node (position in products)
  heap,           \* Inventory._low_stock_heap, the heapq array of <<qty, id>>
  cart,           \* BillingSystem.cart: dict in key order, <<id, qty>> pairs
  undo_stack,     \* BillingSystem.undo_stack: <<"add", id, qty>>, top is last
  customer_name,  \* BillingSystem.customer_name
  subtotal,       \* BillingSystem.subtotal  (hundredths)
  discount,       \* BillingSystem.discount  (hundredths)
  last,           \* the last handler run, its arguments and what it returned
  added,          \* history: id -> quantity the product was added with
  sold,           \* history: id -> units sold in completed checkouts
  before,         \* history: what the last successful add_to_cart, checkout or
                  \* clear_cart started from, and whether an undo came right after
  pending,        \* history: the reservations <<id, qty>> made and not undone
                  \* since the undo stack was last empty, oldest first
  origin,         \* history: quantities and cart when the undo stack was last empty
  inserted,       \* history: the ids add_product accepted, in that order
  actors,         \* where each of two callers of add_to_cart stands in it
  overlapped      \* history: a call was entered while another was under way

vars == <<products, index, heap, cart, undo_stack, customer_name, subtotal,
          discount, last, added, sold, before, pending, origin, inserted,
          actors, overlapped>>

(* ---- the program state as one value, for the methods below ---- *)
Self == [products |-> products, index |-> index, heap |-> heap, cart |-> cart,
         undo_stack |-> undo_stack, customer_name |-> customer_name,
         subtotal |-> subtotal, discount |-> discount]

None == 0

Product(id, name, price, quantity) ==
  [id |-> id, name |-> name, price |-> price, quantity |-> quantity]

(* ---- heapq on tuples <<qty, id>> ---- *)
TupleLt(a, b) == a[1] < b[1] \/ (a[1] = b[1] /\ a[2] < b[2])

RECURSIVE siftdownLoop(_, _, _, _)
siftdownLoop(h, startpos, pos, newitem) ==
  IF pos > startpos
  THEN LET parentpos == (pos - 1) \div 2
           parent == h[parentpos + 1]
       IN IF TupleLt(newitem, parent)
          THEN siftdownLoop([h EXCEPT ![pos + 1] = parent], startpos, parentpos, newitem)
          ELSE [h EXCEPT ![pos + 1] = newitem]
  ELSE [h EXCEPT ![pos + 1] = newitem]

siftdown(h, startpos, pos) == siftdownLoop(h, startpos, pos, h[pos + 1])

RECURSIVE siftupLoop(_, _, _)
siftupLoop(h, pos, endpos) ==
  LET childpos == 2 * pos + 1
  IN IF childpos < endpos
     THEN LET rightpos == childpos + 1
              c == IF rightpos < endpos /\ ~TupleLt(h[childpos + 1], h[rightpos + 1])
                   THEN rightpos ELSE childpos
          IN siftupLoop([h EXCEPT ![pos + 1] = h[c + 1]], c, endpos)
     ELSE <<h, pos>>

siftup(h, pos) ==
  LET newitem == h[pos + 1]
      r == siftupLoop(h, pos, Len(h))
  IN siftdown([r[1] EXCEPT ![r[2] + 1] = newitem], pos, r[2])

heappush(h, item) == siftdown(Append(h, item), 0, Len(h))

heappop(h) ==
  LET lastelt == h[Len(h)]
      rest == SubSeq(h, 1, Len(h) - 1)
  IN IF rest # <<>>
     THEN [heap |-> siftup([rest EXCEPT ![1] = lastelt], 0), item |-> rest[1]]
     ELSE [heap |-> rest, item |-> lastelt]

(* ---- Inventory ---- *)
find(s, pid) == IF pid \in DOMAIN s.index THEN s.index[pid] ELSE None

add_product_prepend(s, prod) ==
  IF prod.id \in DOMAIN s.index
  THEN [s |-> s, ret |-> FALSE]
  ELSE [s |-> [s EXCEPT !.products = <<prod>> \o s.products,
                        !.index = [i \in DOMAIN s.index \cup {prod.id} |->
                                     IF i = prod.id THEN 1
                                     ELSE s.index[i] + 1],
                        !.heap = heappush(s.heap, <<prod.quantity, prod.id>>)],
        ret |-> TRUE]

add_product_overwrite(s, prod) ==
  IF prod.id \in DOMAIN s.index
  THEN [s |-> [s EXCEPT !.products[s.index[prod.id]] = prod], ret |-> FALSE]
  ELSE [s |-> [s EXCEPT !.products = Append(s.products, prod),
                        !.index = [i \in DOMAIN s.index \cup {prod.id} |->
                                     IF i = prod.id THEN Len(s.products) + 1
                                     ELSE s.index[i]],
                        !.heap = heappush(s.heap, <<prod.quantity, prod.id>>)],
        ret |-> TRUE]

add_product(s, prod) ==
  IF prod.id \in DOMAIN s.index
  THEN [s |-> s, ret |-> FALSE]
  ELSE [s |-> [s EXCEPT !.products = Append(s.products, prod),
                        !.index = [i \in DOMAIN s.index \cup {prod.id} |->
                                     IF i = prod.id THEN Len(s.products) + 1
                                     ELSE s.index[i]],
                        !.heap = heappush(s.heap, <<prod.quantity, prod.id>>)],
        ret |-> TRUE]

to_list(s) == s.products

update_quantity_first(s, pid, new_qty) ==
  LET node == find(s, pid)
  IN IF node = None
     THEN s
     ELSE [s EXCEPT !.products[1].quantity = new_qty,
                    !.heap = heappush(s.heap, <<new_qty, pid>>)]

update_quantity_nopush(s, pid, new_qty) ==
  LET node == find(s, pid)
  IN IF node = None
     THEN s
     ELSE [s EXCEPT !.products[node].quantity = new_qty]

update_quantity(s, pid, new_qty) ==
  LET node == find(s, pid)
  IN IF node = None
     THEN s
     ELSE [s EXCEPT !.products[node].quantity = new_qty,
                    !.heap = heappush(s.heap, <<new_qty, pid>>)]


RECURSIVE kLowestLoop(_, _, _, _, _, _)
kLowestLoop(s, h, k, results, seen, popped) ==
  IF h # <<>> /\ seen < k
  THEN LET p == heappop(h)
           qty == p.item[1]
           pid == p.item[2]
           prod == find(s, pid)
           valid == prod # None /\ s.products[prod].quantity = qty
       IN kLowestLoop(s, p.heap, k,
                      IF valid THEN Append(results, s.products[prod]) ELSE results,
                      IF valid THEN seen + 1 ELSE seen,
                      Append(popped, p.item))
  ELSE [heap |-> h, results |-> results, popped |-> popped]

pushAll_none(h, items) == h

RECURSIVE pushAll(_, _)
pushAll(h, items) ==
  IF items = <<>> THEN h ELSE pushAll(heappush(h, Head(items)), Tail(items))

k_lowest_stock(s, k) ==
  LET r == kLowestLoop(s, s.heap, k, <<>>, 0, <<>>)
  IN [s |-> [s EXCEPT !.heap = pushAll(r.heap, r.popped)], ret |-> r.results]

(* ---- the cart dict: <<id, qty>> pairs in key insertion order ---- *)
CartKeys(c) == {c[i][1] : i \in DOMAIN c}

CartGet(c, pid, default) ==
  IF pid \in CartKeys(c)
  THEN c[CHOOSE i \in DOMAIN c : c[i][1] = pid][2]
  ELSE default

CartSet(c, pid, qty) ==
  IF pid \in CartKeys(c)
  THEN [i \in DOMAIN c |-> IF c[i][1] = pid THEN <<pid, qty>> ELSE c[i]]
  ELSE Append(c, <<pid, qty>>)

CartPop_keep(c, pid) == c

CartPop(c, pid) == SelectSeq(c, LAMBDA e : e[1] # pid)

(* ---- BillingSystem ---- *)
add_to_cart_no_undo(s, pid, qty) ==
  LET prod == find(s, pid)
  IN IF prod = None
     THEN [s |-> s, ret |-> "Product not found."]
     ELSE IF qty <= 0
     THEN [s |-> s, ret |-> "Quantity should be positive."]
     ELSE IF qty > s.products[prod].quantity
     THEN [s |-> s, ret |-> "Not enough stock available."]
     ELSE LET s1 == [s EXCEPT !.products[prod].quantity = @ - qty]
              s2 == [s1 EXCEPT !.cart = CartSet(s1.cart, pid, CartGet(s1.cart, pid, 0) + qty)]
              s3 == update_quantity(s2, pid, s2.products[prod].quantity)
          IN [s |-> s3, ret |-> "Added"]

add_to_cart_unchecked(s, pid, qty) ==
  LET prod == find(s, pid)
  IN IF prod = None
     THEN [s |-> s, ret |-> "Product not found."]
     ELSE IF qty <= 0
     THEN [s |-> s, ret |-> "Quantity should be positive."]
     ELSE LET s1 == [s EXCEPT !.products[prod].quantity = @ - qty]
              s2 == [s1 EXCEPT !.cart = CartSet(s1.cart, pid, CartGet(s1.cart, pid, 0) + qty)]
              s3 == update_quantity(s2, pid, s2.products[prod].quantity)
              s4 == [s3 EXCEPT !.undo_stack = Append(s3.undo_stack, <<"add", pid, qty>>)]
          IN [s |-> s4, ret |-> "Added"]

add_to_cart_strict(s, pid, qty) ==
  LET prod == find(s, pid)
  IN IF prod = None
     THEN [s |-> s, ret |-> "Product not found."]
     ELSE IF qty <= 0
     THEN [s |-> s, ret |-> "Quantity should be positive."]
     ELSE IF qty >= s.products[prod].quantity
     THEN [s |-> s, ret |-> "Not enough stock available."]
     ELSE LET s1 == [s EXCEPT !.products[prod].quantity = @ - qty]
              s2 == [s1 EXCEPT !.cart = CartSet(s1.cart, pid, CartGet(s1.cart, pid, 0) + qty)]
              s3 == update_quantity(s2, pid, s2.products[prod].quantity)
              s4 == [s3 EXCEPT !.undo_stack = Append(s3.undo_stack, <<"add", pid, qty>>)]
          IN [s |-> s4, ret |-> "Added"]

add_to_cart_qty_first(s, pid, qty) ==
  LET prod == find(s, pid)
  IN IF qty <= 0
     THEN [s |-> s, ret |-> "Quantity should be positive."]
     ELSE IF prod = None
     THEN [s |-> s, ret |-> "Product not found."]
     ELSE IF qty > s.products[prod].quantity
     THEN [s |-> s, ret |-> "Not enough stock available."]
     ELSE LET s1 == [s EXCEPT !.products[prod].quantity = @ - qty]
              s2 == [s1 EXCEPT !.cart = CartSet(s1.cart, pid, CartGet(s1.cart, pid, 0) + qty)]
              s3 == update_quantity(s2, pid, s2.products[prod].quantity)
              s4 == [s3 EXCEPT !.undo_stack = Append(s3.undo_stack, <<"add", pid, qty>>)]
          IN [s |-> s4, ret |-> "Added"]

add_to_cart(s, pid, qty) ==
  LET prod == find(s, pid)
  IN IF prod = None
     THEN [s |-> s, ret |-> "Product not found."]
     ELSE IF qty <= 0
     THEN [s |-> s, ret |-> "Quantity should be positive."]
     ELSE IF qty > s.products[prod].quantity
     THEN [s |-> s, ret |-> "Not enough stock available."]
     ELSE LET s1 == [s EXCEPT !.products[prod].quantity = @ - qty]
              s2 == [s1 EXCEPT !.cart = CartSet(s1.cart, pid, CartGet(s1.cart, pid, 0) + qty)]
              s3 == update_quantity(s2, pid, s2.products[prod].quantity)
              s4 == [s3 EXCEPT !.undo_stack = Append(s3.undo_stack, <<"add", pid, qty>>)]
          IN [s |-> s4, ret |-> "Added"]

undo_last_fifo(s) ==
  IF s.undo_stack = <<>>
  THEN [s |-> s, ret |-> "Nothing to undo."]
  ELSE LET top == s.undo_stack[1]
           action == top[1]
           pid == top[2]
           qty == top[3]
           s1 == [s EXCEPT !.undo_stack = SubSeq(s.undo_stack, 2, Len(s.undo_stack))]
       IN IF action = "add"
          THEN LET prod == find(s1, pid)
               IN IF prod = None
                  THEN [s |-> s1, ret |-> "Unexpected error: product missing."]
                  ELSE LET s2 == [s1 EXCEPT !.products[prod].quantity = @ + qty]
                           s3 == update_quantity(s2, pid, s2.products[prod].quantity)
                       IN IF pid \notin CartKeys(s3.cart)
                          THEN [s |-> s3, ret |-> "KeyError"]
                          ELSE LET s4 == [s3 EXCEPT !.cart = CartSet(s3.cart, pid, CartGet(s3.cart, pid, 0) - qty)]
                                   s5 == IF CartGet(s4.cart, pid, 0) <= 0
                                         THEN [s4 EXCEPT !.cart = CartPop(s4.cart, pid)]
                                         ELSE s4
                               IN [s |-> s5, ret |-> "Undone"]
          ELSE [s |-> s1, ret |-> "Unknown action."]

undo_last(s) ==
  IF s.undo_stack = <<>>
  THEN [s |-> s, ret |-> "Nothing to undo."]
  ELSE LET top == s.undo_stack[Len(s.undo_stack)]
           action == top[1]
           pid == top[2]
           qty == top[3]
           s1 == [s EXCEPT !.undo_stack = SubSeq(s.undo_stack, 1, Len(s.undo_stack) - 1)]
       IN IF action = "add"
          THEN LET prod == find(s1, pid)
               IN IF prod = None
                  THEN [s |-> s1, ret |-> "Unexpected error: product missing."]
                  ELSE LET s2 == [s1 EXCEPT !.products[prod].quantity = @ + qty]
                           s3 == update_quantity(s2, pid, s2.products[prod].quantity)
                       IN IF pid \notin CartKeys(s3.cart)
                          THEN [s |-> s3, ret |-> "KeyError"]
                          ELSE LET s4 == [s3 EXCEPT !.cart = CartSet(s3.cart, pid, CartGet(s3.cart, pid, 0) - qty)]
                                   s5 == IF CartGet(s4.cart, pid, 0) <= 0
                                         THEN [s4 EXCEPT !.cart = CartPop(s4.cart, pid)]
                                         ELSE s4
                               IN [s |-> s5, ret |-> "Undone"]
          ELSE [s |-> s1, ret |-> "Unknown action."]

RECURSIVE sumCart(_, _, _)
sumCart(s, c, acc) ==
  IF c = <<>> THEN acc
  ELSE LET pid == Head(c)[1]
           qty == Head(c)[2]
           prod == find(s, pid)
       IN sumCart(s, Tail(c),
                  IF prod # None THEN acc + s.products[prod].price * qty ELSE acc)

DiscountRate_ascending(sub) ==
  IF sub > 20000 THEN 5
  ELSE IF sub > 50000 THEN 10
  ELSE 0

DiscountRate_inclusive(sub) ==
  IF sub >= 50000 THEN 10
  ELSE IF sub > 20000 THEN 5
  ELSE 0

DiscountRate_swapped(sub) ==
  IF sub > 50000 THEN 5
  ELSE IF sub > 20000 THEN 10
  ELSE 0

DiscountRate(sub) ==
  IF sub > 50000 THEN 10
  ELSE IF sub > 20000 THEN 5
  ELSE 0

compute_totals(s) ==
  LET sub == sumCart(s, s.cart, 0)
  IN [s EXCEPT !.subtotal = sub,
               !.discount = (DiscountRate(sub) * sub) \div 100]

RECURSIVE billLines(_, _)
billLines(s, c) ==
  IF c = <<>> THEN <<>>
  ELSE LET pid == Head(c)[1]
           qty == Head(c)[2]
           prod == find(s, pid)
       IN IF prod # None
          THEN <<[name |-> s.products[prod].name, qty |-> qty,
                  price |-> s.products[prod].price,
                  line_total |-> s.products[prod].price * qty]>>
               \o billLines(s, Tail(c))
          ELSE billLines(s, Tail(c))

checkout_summary(s) ==
  LET s1 == compute_totals(s)
  IN [s |-> s1,
      ret |-> [customer |-> s1.customer_name, lines |-> billLines(s1, s1.cart),
               subtotal |-> s1.subtotal, discount |-> s1.discount,
               total |-> s1.subtotal - s1.discount]]

clear_keep_undo(s) ==
  [s EXCEPT !.cart = <<>>, !.customer_name = "", !.subtotal = 0, !.discount = 0]

clear_keep_name(s) ==
  [s EXCEPT !.cart = <<>>, !.undo_stack = <<>>, !.subtotal = 0, !.discount = 0]

clear(s) ==
  [s EXCEPT !.cart = <<>>, !.undo_stack = <<>>, !.customer_name = "",
            !.subtotal = 0, !.discount = 0]


(* ---- history bookkeeping ---- *)
(* pid, qty, k are the arguments of the call; for clear_cart, qty is the     *)
(* number of cart entries and k the undo stack depth it started from; for   *)
(* undo_last, k counts the undo_last calls in a row that restored something. *)
Called(op, pid, qty, k, ret, results, bill) ==
  [op |-> op, pid |-> pid, qty |-> qty, k |-> k, ret |-> ret,
   results |-> results, bill |-> bill]

Snapshot(P, I, c) ==
  [quantities |-> [i \in DOMAIN I |-> P[I[i]].quantity], cart |-> c]

\* origin follows the state for as long as the undo stack is empty
Track == origin' = IF undo_stack' = <<>> THEN Snapshot(products', index', cart') ELSE origin

NoBefore == [phase |-> "none", products |-> <<>>, cart |-> <<>>, undo_stack |-> <<>>]

Commit(state) ==
  \E s \in {state} :
  /\ products' = s.products
  /\ index' = s.index
  /\ heap' = s.heap
  /\ cart' = s.cart
  /\ undo_stack' = s.undo_stack
  /\ customer_name' = s.customer_name
  /\ subtotal' = s.subtotal
  /\ discount' = s.discount

(* ---- App: construction ---- *)
Actors == {1, 2}
Idle == [pc |-> "idle", pid |-> 0, qty |-> 0, prod |-> None]

Init ==
  /\ products = <<>>
  /\ index = <<>>
  /\ heap = <<>>
  /\ cart = <<>>
  /\ undo_stack = <<>>
  /\ customer_name = ""
  /\ subtotal = 0
  /\ discount = 0
  /\ last = Called("init", 0, 0, 0, "", <<>>, <<>>)
  /\ added = <<>>
  /\ sold = <<>>
  /\ before = NoBefore
  /\ pending = <<>>
  /\ origin = Snapshot(products, index, cart)
  /\ inserted = <<>>
  /\ actors = [a \in Actors |-> Idle]
  /\ overlapped = FALSE

(* ---- App: handlers ---- *)
(* Each handler computes the state it leaves once (\E over a one-element   *)
(* set) and stores it.                                                     *)
refresh_cart_table_and_totals(s) == compute_totals(s)

on_add_product(pid, name, price, qty) ==
  \E r \in {add_product(Self, Product(pid, name, price, qty))} :
  \E ret \in {IF name = "" THEN "Error: Empty name"
              ELSE IF price < 0 \/ qty < 0 THEN "Error: Negative values"
              ELSE IF ~r.ret THEN "Error: Duplicate ID"
              ELSE "Product added"} :
     /\ ret = "Product added" => Len(r.s.heap) <= MaxHeap
     /\ Commit(IF ret = "Product added" THEN r.s ELSE Self)
     /\ Track
     /\ UNCHANGED <<actors, overlapped>>
     /\ last' = Called("add_product", pid, IF ret = "Product added" THEN qty ELSE 0, 0,
                       ret, <<>>, <<>>)
     /\ added' = IF ret = "Product added"
                 THEN [i \in DOMAIN added \cup {pid} |-> IF i = pid THEN qty ELSE added[i]]
                 ELSE added
     /\ sold' = IF ret = "Product added"
                THEN [i \in DOMAIN sold \cup {pid} |-> IF i = pid THEN 0 ELSE sold[i]]
                ELSE sold
     /\ before' = NoBefore
     /\ inserted' = IF ret = "Product added" THEN Append(inserted, pid) ELSE inserted
     /\ UNCHANGED pending

\* the button asks for k = 5; k_lowest_stock itself takes any k
on_show_low_stock(k) ==
  \E r \in {k_lowest_stock(Self, k)} :
     /\ Commit(r.s)
     /\ Track
     /\ UNCHANGED <<actors, overlapped>>
     /\ last' = Called("k_lowest_stock", 0, 0, k,
                       IF r.ret = <<>> THEN "No low stock items" ELSE "Low stock checked",
                       r.ret, <<>>)
     /\ before' = NoBefore
     /\ UNCHANGED <<added, sold, pending, inserted>>

on_add_to_cart(name, pid, qty) ==
  \E r \in {add_to_cart([Self EXCEPT !.customer_name = name], pid, qty)} :
     /\ Len(r.s.heap) <= MaxHeap
     /\ Commit(IF r.ret = "Added" THEN refresh_cart_table_and_totals(r.s) ELSE r.s)
     /\ Track
     /\ UNCHANGED <<actors, overlapped>>
     /\ last' = Called("add_to_cart", pid, qty, 0, r.ret, <<>>, <<>>)
     /\ before' = IF r.ret = "Added"
                  THEN [phase |-> "added", products |-> products, cart |-> cart,
                        undo_stack |-> undo_stack]
                  ELSE NoBefore
     /\ pending' = IF r.ret = "Added" THEN Append(pending, <<pid, qty>>) ELSE pending
     /\ UNCHANGED <<added, sold, inserted>>

on_undo ==
  \E r \in {undo_last(Self)} :
     /\ Len(r.s.heap) <= MaxHeap
     /\ Commit(IF r.ret = "KeyError" THEN r.s ELSE refresh_cart_table_and_totals(r.s))
     /\ Track
     /\ UNCHANGED <<actors, overlapped>>
     /\ last' = Called("undo_last", 0, 0,
                       (IF last.op = "undo_last" THEN last.k ELSE 0)
                         + (IF r.ret = "Undone" THEN 1 ELSE 0),
                       r.ret, <<>>, <<>>)
     /\ before' = IF before.phase = "added" THEN [before EXCEPT !.phase = "undone"]
                  ELSE IF before.phase = "checked_out"
                  THEN [before EXCEPT !.phase = "undo_after_checkout"]
                  ELSE IF before.phase = "cleared"
                  THEN [before EXCEPT !.phase = "undo_after_clear"]
                  ELSE NoBefore
     /\ pending' = IF r.ret = "Undone" /\ pending # <<>>
                   THEN SubSeq(pending, 1, Len(pending) - 1)
                   ELSE pending
     /\ UNCHANGED <<added, sold, inserted>>

on_checkout_unguarded ==
  \E r \in {checkout_summary(Self)} :
     /\ Commit(refresh_cart_table_and_totals(clear(r.s)))
     /\ Track
     /\ UNCHANGED <<actors, overlapped>>
     /\ last' = Called("checkout", 0, 0, 0, "Checkout complete", <<>>, <<r.ret>>)
     /\ sold' = [i \in DOMAIN sold |-> sold[i] + CartGet(cart, i, 0)]
     /\ before' = [phase |-> "checked_out", products |-> products, cart |-> cart,
                   undo_stack |-> undo_stack]
     /\ pending' = <<>>
     /\ UNCHANGED <<added, inserted>>

on_checkout ==
  IF cart = <<>>
  THEN /\ Commit(Self)
       /\ Track
       /\ UNCHANGED <<actors, overlapped>>
       /\ last' = Called("checkout", 0, 0, 0, "Cart is empty", <<>>, <<>>)
       /\ before' = NoBefore
       /\ UNCHANGED <<added, sold, pending, inserted>>
  ELSE \E r \in {checkout_summary(Self)} :
          /\ Commit(refresh_cart_table_and_totals(clear(r.s)))
          /\ Track
          /\ UNCHANGED <<actors, overlapped>>
          /\ last' = Called("checkout", 0, 0, 0, "Checkout complete", <<>>, <<r.ret>>)
          /\ sold' = [i \in DOMAIN sold |-> sold[i] + CartGet(cart, i, 0)]
          /\ before' = [phase |-> "checked_out", products |-> products, cart |-> cart,
                        undo_stack |-> undo_stack]
          /\ pending' = <<>>
          /\ UNCHANGED <<added, inserted>>

restoreCart_none(s, items) == s

RECURSIVE restoreCart(_, _)
restoreCart(s, items) ==
  IF items = <<>> THEN s
  ELSE LET pid == Head(items)[1]
           qty == Head(items)[2]
           prod == find(s, pid)
       IN restoreCart(IF prod # None
                      THEN update_quantity([s EXCEPT !.products[prod].quantity = @ + qty],
                                           pid, s.products[prod].quantity + qty)
                      ELSE s,
                      Tail(items))

on_clear_cart ==
  \E s1 \in {restoreCart(Self, cart)} :
     /\ Len(s1.heap) <= MaxHeap
     /\ Commit(refresh_cart_table_and_totals(clear(s1)))
     /\ Track
     /\ UNCHANGED <<actors, overlapped>>
     /\ last' = Called("clear_cart", 0, Len(cart), Len(undo_stack), "Cart cleared", <<>>, <<>>)
     /\ before' = [phase |-> "cleared", products |-> products, cart |-> cart,
                   undo_stack |-> undo_stack]
     /\ pending' = <<>>
     /\ UNCHANGED <<added, sold, inserted>>

(* ---- specifications ---- *)
Next ==
  \/ \E pid \in PIDs, form \in AddForms :
       on_add_product(pid, form[1], form[2], form[3])
  \/ \E k \in KValues : on_show_low_stock(k)
  \/ \E name \in CustomerNames, pid \in PIDs, qty \in ReserveQtys :
       on_add_to_cart(name, pid, qty)
  \/ on_undo
  \/ on_checkout
  \/ on_clear_cart

Spec == Init /\ [][Next]_vars

NextRice ==
  \/ \E pid \in RicePIDs, form \in RiceAddForms :
       on_add_product(pid, form[1], form[2], form[3])
  \/ \E k \in RiceKValues : on_show_low_stock(k)
  \/ \E name \in CustomerNames, pid \in RicePIDs, qty \in RiceReserveQtys :
       on_add_to_cart(name, pid, qty)
  \/ on_undo
  \/ on_checkout
  \/ on_clear_cart

SpecRice == Init /\ [][NextRice]_vars

(* ---- add_to_cart run by two callers, one statement at a time ---- *)
CallAddForms == { <<"Rice", 10000, 1>>, <<"Rice", 10000, 2>> }
CallPIDs == {1, 2}
CallQtys == {0, 1, 2}

Quiet == \A a \in Actors : actors[a].pc = "idle"

Returned(a, pid, qty, ret) ==
  /\ actors' = [actors EXCEPT ![a] = Idle]
  /\ last' = Called("add_to_cart", pid, qty, 0, ret, <<>>, <<>>)

Goes(a, pc) ==
  /\ actors' = [actors EXCEPT ![a].pc = pc]
  /\ UNCHANGED last

\* prod = find(pid); the two tests that read only the arguments
race_enter(a, pid, qty) ==
  /\ actors[a].pc = "idle"
  /\ \E prod \in {find(Self, pid)} :
       IF prod = None
       THEN Returned(a, pid, qty, "Product not found.") /\ UNCHANGED overlapped
       ELSE IF qty <= 0
       THEN Returned(a, pid, qty, "Quantity should be positive.") /\ UNCHANGED overlapped
       ELSE /\ actors' = [actors EXCEPT ![a] =
                            [pc |-> "check", pid |-> pid, qty |-> qty, prod |-> prod]]
            /\ overlapped' = (overlapped \/ ~Quiet)
            /\ UNCHANGED last
  /\ UNCHANGED <<products, index, heap, cart, undo_stack, customer_name, subtotal,
                 discount, added, sold, before, pending, origin, inserted>>

race_check_none(a) ==
  /\ actors[a].pc = "check"
  /\ Goes(a, "deduct")
  /\ UNCHANGED <<products, index, heap, cart, undo_stack, customer_name, subtotal,
                 discount, added, sold, before, pending, origin, inserted, overlapped>>

\* if qty > prod.quantity: return
race_check(a) ==
  /\ actors[a].pc = "check"
  /\ IF actors[a].qty > products[actors[a].prod].quantity
     THEN Returned(a, actors[a].pid, actors[a].qty, "Not enough stock available.")
     ELSE Goes(a, "deduct")
  /\ UNCHANGED <<products, index, heap, cart, undo_stack, customer_name, subtotal,
                 discount, added, sold, before, pending, origin, inserted, overlapped>>

\* prod.quantity -= qty
race_deduct(a) ==
  /\ actors[a].pc = "deduct"
  /\ products' = [products EXCEPT ![actors[a].prod].quantity = @ - actors[a].qty]
  /\ Goes(a, "cart")
  /\ UNCHANGED <<index, heap, cart, undo_stack, customer_name, subtotal,
                 discount, added, sold, before, pending, origin, inserted, overlapped>>

\* self.cart[pid] = self.cart.get(pid, 0) + qty
race_cart(a) ==
  /\ actors[a].pc = "cart"
  /\ cart' = CartSet(cart, actors[a].pid, CartGet(cart, actors[a].pid, 0) + actors[a].qty)
  /\ Goes(a, "observe")
  /\ UNCHANGED <<products, index, heap, undo_stack, customer_name, subtotal,
                 discount, added, sold, before, pending, origin, inserted, overlapped>>

\* self.inventory.update_quantity(pid, prod.quantity)
race_observe(a) ==
  /\ actors[a].pc = "observe"
  /\ \E s \in {update_quantity(Self, actors[a].pid, products[actors[a].prod].quantity)} :
       /\ Len(s.heap) <= MaxHeap
       /\ products' = s.products
       /\ heap' = s.heap
  /\ Goes(a, "push")
  /\ UNCHANGED <<index, cart, undo_stack, customer_name, subtotal,
                 discount, added, sold, before, pending, origin, inserted, overlapped>>

\* self.undo_stack.append(("add", pid, qty)); return
race_push(a) ==
  /\ actors[a].pc = "push"
  /\ undo_stack' = Append(undo_stack, <<"add", actors[a].pid, actors[a].qty>>)
  /\ Returned(a, actors[a].pid, actors[a].qty, "Added")
  /\ UNCHANGED <<products, index, heap, cart, customer_name, subtotal,
                 discount, added, sold, before, pending, origin, inserted, overlapped>>

NextRace ==
  \/ \E form \in CallAddForms :
       Quiet /\ on_add_product(1, form[1], form[2], form[3])
  \/ \E a \in Actors, pid \in CallPIDs, qty \in CallQtys : race_enter(a, pid, qty)
  \/ \E a \in Actors : race_check(a)
  \/ \E a \in Actors : race_deduct(a)
  \/ \E a \in Actors : race_cart(a)
  \/ \E a \in Actors : race_observe(a)
  \/ \E a \in Actors : race_push(a)

SpecRace == Init /\ [][NextRace]_vars


(***************************************************************************)
(* Properties                                                              *)
(***************************************************************************)
Known(pid) == pid \in DOMAIN index
Quantity(P, I, pid) == P[I[pid]].quantity
InCart(c, pid) == CartGet(c, pid, 0)

AddToCartCalled(pid, q) ==
  last'.op = "add_to_cart" /\ last'.pid = pid /\ last'.qty = q

(* C1 -- Reservation conservation: add_to_cart(pid, q) succeeds exactly    *)
(* when pid is in the inventory, q > 0 and q <= the product's current      *)
(* quantity; on success the quantity drops by q, cart[pid] (0 if absent)   *)
(* grows by q, and exactly ("add", pid, q) is pushed on the undo stack.    *)
C1_ReservationConservation ==
  [][\A pid \in PIDs, q \in ReserveQtys :
       AddToCartCalled(pid, q) =>
         /\ (last'.ret = "Added") <=>
              (Known(pid) /\ q > 0 /\ q <= Quantity(products, index, pid))
         /\ last'.ret = "Added" =>
              /\ Quantity(products', index', pid) = Quantity(products, index, pid) - q
              /\ InCart(cart', pid) = InCart(cart, pid) + q
              /\ undo_stack' = Append(undo_stack, <<"add", pid, q>>)]_vars

\* a reservation of the whole remaining stock went through, on top of an
\* earlier reservation of the same product
C1_Witness ==
  /\ last.op = "add_to_cart" /\ last.ret = "Added"
  /\ Quantity(products, index, last.pid) = 0
  /\ InCart(cart, last.pid) > last.qty

(* C2 -- A failed add_to_cart mutates nothing: NotFound for an unknown pid *)
(* (even when q <= 0), InvalidQuantity for a known pid and q <= 0,         *)
(* InsufficientStock for a known pid and q above the current quantity; in  *)
(* each case quantities, cart, undo stack and heap are as before.          *)
C2_FailedAddNoMutation ==
  [][\A pid \in PIDs, q \in ReserveQtys :
       AddToCartCalled(pid, q) =>
         /\ ~Known(pid) => last'.ret = "Product not found."
         /\ (Known(pid) /\ q <= 0) => last'.ret = "Quantity should be positive."
         /\ (Known(pid) /\ q > 0 /\ q > Quantity(products, index, pid))
              => last'.ret = "Not enough stock available."
         /\ last'.ret # "Added" =>
              /\ last'.ret \in {"Product not found.", "Quantity should be positive.",
                                "Not enough stock available."}
              /\ UNCHANGED <<products, index, cart, undo_stack, heap>>]_vars

\* an unknown pid asked with q <= 0 was reported as not found, while another
\* product sits reserved in the cart
C2_Witness ==
  /\ last.op = "add_to_cart" /\ last.ret = "Product not found." /\ last.qty <= 0
  /\ cart # <<>>

(* C3 -- Undo is a true inverse: a successful add_to_cart immediately      *)
(* followed by undo_last puts every product, the cart (an entry absent     *)
(* before is absent again) and the undo stack back as before the add.      *)
C3_UndoIsInverse ==
  before.phase = "undone" =>
    /\ last.op = "undo_last" /\ last.ret = "Undone"
    /\ products = before.products
    /\ cart = before.cart
    /\ undo_stack = before.undo_stack

\* an add followed by its undo, in a cart that held other reservations
C3_Witness ==
  /\ before.phase = "undone"
  /\ before.undo_stack # <<>>
  /\ Len(before.cart) = 1

(* C4 -- Low-stock correctness: k_lowest_stock(k) returns exactly the      *)
(* min(k, number of products) products of smallest current quantity, each  *)
(* at most once, by ascending quantity then id, with current quantities.   *)
RECURSIVE SortedByStock(_)
SortedByStock(S) ==
  IF S = {} THEN <<>>
  ELSE LET m == CHOOSE p \in S : \A o \in S :
                  p = o \/ TupleLt(<<p.quantity, p.id>>, <<o.quantity, o.id>>)
       IN <<m>> \o SortedByStock(S \ {m})

Min2(a, b) == IF a <= b THEN a ELSE b

ExpectedLowest(k) ==
  SubSeq(SortedByStock({products[i] : i \in DOMAIN products}), 1, Min2(k, Len(products)))

C4_LowStockCorrect ==
  last.op = "k_lowest_stock" => last.results = ExpectedLowest(last.k)

(* C5 -- Stock/cart pairing: for every product, current quantity plus      *)
(* cart quantity (0 if absent) plus units sold in completed checkouts      *)
(* equals the quantity the product was added with.                         *)
C5_StockCartPairing ==
  /\ DOMAIN added = DOMAIN index
  /\ DOMAIN sold = DOMAIN index
  /\ \A pid \in DOMAIN index :
       Quantity(products, index, pid) + InCart(cart, pid) + sold[pid] = added[pid]

\* a product with units sold and units in the cart, and none left in stock
C5_Witness ==
  \E pid \in DOMAIN index :
    sold[pid] > 0 /\ InCart(cart, pid) > 0 /\ Quantity(products, index, pid) = 0

(* C6 -- Checkout of a non-empty cart is final: quantities stay as they    *)
(* are, cart and undo stack are emptied and the customer name reset, and   *)
(* an undo_last right after it finds nothing to undo and returns no stock. *)
C6_CheckoutIsFinal ==
  /\ [][(last'.op = "checkout" /\ last'.ret = "Checkout complete") =>
          /\ cart # <<>>
          /\ products' = products
          /\ cart' = <<>>
          /\ undo_stack' = <<>>
          /\ customer_name' = ""]_vars
  /\ [](before.phase = "undo_after_checkout" =>
          /\ last.ret = "Nothing to undo."
          /\ products = before.products
          /\ cart = <<>>)
  /\ [](\A pid \in DOMAIN index :
          Quantity(products, index, pid) <= added[pid] - sold[pid])

\* an undo tried right after a checkout that sold something
C6_Witness ==
  /\ before.phase = "undo_after_checkout"
  /\ before.cart # <<>>
  /\ \E pid \in DOMAIN index : sold[pid] > 0

(* C7 -- clear_cart fully restores stock: each product's quantity grows by *)
(* its cart quantity, cart and undo stack end empty, and products and cart *)
(* are what undo_last repeated until the stack is empty would give.        *)
RECURSIVE UndoAll(_)
UndoAll(s) ==
  IF s.undo_stack = <<>> THEN s ELSE UndoAll(undo_last(s).s)

C7_ClearRestoresStock ==
  [][last'.op = "clear_cart" =>
       /\ index' = index
       /\ \A pid \in DOMAIN index :
            Quantity(products', index', pid) = Quantity(products, index, pid) + InCart(cart, pid)
       /\ cart' = <<>>
       /\ undo_stack' = <<>>
       /\ products' = UndoAll(Self).products
       /\ cart' = UndoAll(Self).cart]_vars

\* a clear of a cart built by at least two reservations
C7_Witness ==
  last.op = "clear_cart" /\ last.qty >= 1 /\ last.k >= 2

(* C8 -- Discount slabs: subtotal is the sum over cart entries of current  *)
(* price times cart quantity; the discount is 10% above 500, 5% above 200  *)
(* up to 500, and nothing up to 200 (amounts in hundredths).               *)
RECURSIVE SumLines(_)
SumLines(S) ==
  IF S = {} THEN 0
  ELSE LET pid == CHOOSE x \in S : TRUE
       IN products[index[pid]].price * InCart(cart, pid) + SumLines(S \ {pid})

C8_DiscountSlabs ==
  /\ subtotal = SumLines(CartKeys(cart))
  /\ subtotal > 50000 => 100 * discount = 10 * subtotal
  /\ (subtotal > 20000 /\ subtotal <= 50000) => 100 * discount = 5 * subtotal
  /\ subtotal <= 20000 => discount = 0

\* two products in the cart and a subtotal above the upper threshold
C8_Witness ==
  Len(cart) = 2 /\ subtotal > 50000 /\ discount > 0

(* C9 -- Boundary scenario: with only Rice (id 1, price 50, added with     *)
(* 100) in the inventory, 10 units reserved give subtotal 500 and discount *)
(* 25 (exactly 500 is not above 500, so the 5% slab applies); 11 units     *)
(* give subtotal 550, discount 55 and total 495.                           *)
OnlyRice ==
  /\ Len(products) = 1
  /\ products[1].id = 1 /\ products[1].name = "Rice" /\ products[1].price = 5000
  /\ added[1] = 100

C9_BoundaryScenario ==
  OnlyRice =>
    /\ cart = << <<1, 10>> >> =>
         (subtotal = 50000 /\ discount = 2500 /\ subtotal - discount = 47500)
    /\ cart = << <<1, 11>> >> =>
         (subtotal = 55000 /\ discount = 5500 /\ subtotal - discount = 49500)

\* C9 as first stated: a subtotal of exactly 500 receives no discount
C9_AsStated ==
  OnlyRice =>
    /\ cart = << <<1, 10>> >> => (subtotal = 50000 /\ discount = 0)
    /\ cart = << <<1, 11>> >> =>
         (subtotal = 55000 /\ discount = 5500 /\ subtotal - discount = 49500)

\* the scenario itself: 10 units reserved, then 1 more
C9_Witness ==
  /\ OnlyRice
  /\ undo_stack = << <<"add", 1, 10>>, <<"add", 1, 1>> >>
  /\ products[1].quantity = 89
  /\ discount = 5500

(* C10 -- Discount monotonicity: the rate applied to the cart's subtotal   *)
(* is at least the rate of every smaller subtotal and at most the rate of  *)
(* every larger one, and 0 <= subtotal - discount <= subtotal.             *)
SubtotalSamples ==
  {2500 * n : n \in 0..44} \cup {19999, 20001, 49999, 50001}

C10_DiscountMonotone ==
  /\ 100 * discount = DiscountRate(subtotal) * subtotal
  /\ \A s1 \in SubtotalSamples :
       /\ s1 <= subtotal => DiscountRate(s1) * subtotal <= 100 * discount
       /\ s1 >= subtotal => DiscountRate(s1) * subtotal >= 100 * discount
  /\ 0 <= subtotal - discount
  /\ subtotal - discount <= subtotal

\* a cart in the middle slab: lower and higher rates both exist around it
C10_Witness ==
  subtotal > 20000 /\ subtotal <= 50000 /\ 100 * discount = 5 * subtotal

(* C11 -- Strict LIFO unwinding: with n reservations made since the undo   *)
(* stack was last empty (no checkout or clear since), n undo_last calls    *)
(* in a row each succeed and give back the product and quantity of the     *)
(* most recent reservation not yet undone, after the n-th the quantities   *)
(* and the cart are what they were before the first reservation, and one   *)
(* more undo_last answers "Nothing to undo." and changes nothing.          *)
QuantitiesOf(s) == [i \in DOMAIN s.index |-> s.products[s.index[i]].quantity]

RECURSIVE Unwinds(_, _)
Unwinds(s, pend) ==
  \A r \in {undo_last(s)} :
    IF pend = <<>>
    THEN /\ \A i \in DOMAIN index :
              QuantitiesOf(s)[i] =
                IF i \in DOMAIN origin.quantities THEN origin.quantities[i] ELSE added[i]
         /\ s.cart = origin.cart
         /\ r = [s |-> s, ret |-> "Nothing to undo."]
    ELSE \A e \in {pend[Len(pend)]} :
         /\ r.ret = "Undone"
         /\ QuantitiesOf(r.s) = [QuantitiesOf(s) EXCEPT ![e[1]] = @ + e[2]]
         /\ \A p \in PIDs :
              InCart(r.s.cart, p) = InCart(s.cart, p) - (IF p = e[1] THEN e[2] ELSE 0)
         /\ Unwinds(r.s, SubSeq(pend, 1, Len(pend) - 1))

C11_LifoUnwinding == Unwinds(Self, pending)

\* the program itself has undone two reservations in a row and was then
\* asked for one more undo
C11_Witness ==
  /\ last.op = "undo_last"
  /\ last.ret = "Nothing to undo."
  /\ last.k >= 2

(* C12 -- undo_last on an empty undo stack answers "Nothing to undo." and  *)
(* leaves every product quantity, the cart, the undo stack and the         *)
(* low-stock heap as they were; the stack is empty, and the undo refused,  *)
(* in the initial state and right after a checkout or a clear_cart.        *)
C12_UndoOnEmptyStack ==
  /\ undo_last(Self) = [s |-> Self, ret |-> "Nothing to undo."]
  /\ [][ last'.op = "undo_last" =>
           /\ (undo_stack = <<>>) <=> (last'.ret = "Nothing to undo.")
           /\ undo_stack = <<>> =>
                UNCHANGED <<products, index, cart, undo_stack, heap>>
       ]_vars
  /\ [](before.phase \in {"checked_out", "cleared"} =>
          undo_last(Self) = [s |-> Self, ret |-> "Nothing to undo."])
  /\ [](before.phase \in {"undo_after_checkout", "undo_after_clear"} =>
          /\ last.op = "undo_last"
          /\ last.ret = "Nothing to undo.")

\* an undo asked for right after a cart of two reservations was cleared
C12_Witness ==
  /\ before.phase = "undo_after_clear"
  /\ Len(before.undo_stack) >= 2
  /\ last.ret = "Nothing to undo."

(* C13 -- Checkout with an empty cart is rejected ("Cart is empty"): no    *)
(* bill is produced and the inventory quantities, the cart, the undo       *)
(* stack, the customer name and the stored subtotal and discount are       *)
(* unchanged; a checkout is rejected only when the cart is empty.          *)
C13_EmptyCartCheckout ==
  [][ last'.op = "checkout" =>
        /\ (cart = <<>>) <=> (last'.ret = "Cart is empty")
        /\ cart = <<>> =>
             /\ last'.bill = <<>>
             /\ UNCHANGED <<products, index, heap, cart, undo_stack,
                            customer_name, subtotal, discount>>
    ]_vars

\* rejected while a customer name is set: a reservation was refused before
C13_Witness ==
  /\ last.op = "checkout"
  /\ last.ret = "Cart is empty"
  /\ customer_name = "Asha"
  /\ products # <<>>

(* C14 -- add_product with an id already present returns False and leaves  *)
(* the whole inventory as it was (sequence, index, the stored product's    *)
(* name, price and current quantity, heap), whatever the fields of the     *)
(* rejected product; the handler reports the duplicate only for a present  *)
(* id.                                                                     *)
C14_DuplicateRejected ==
  /\ \A pid \in DOMAIN index : \A f \in AddForms :
       add_product(Self, Product(pid, f[1], f[2], f[3])) = [s |-> Self, ret |-> FALSE]
  /\ last.ret = "Error: Duplicate ID" =>
       /\ last.op = "add_product"
       /\ last.pid \in DOMAIN index
       /\ last.pid \in {inserted[i] : i \in DOMAIN inserted}

\* a duplicate refused for a product part of whose stock is in the cart
C14_Witness ==
  /\ last.ret = "Error: Duplicate ID"
  /\ Len(products) = 2
  /\ InCart(cart, last.pid) > 0
  /\ products[index[last.pid]].quantity < added[last.pid]

(* C15 -- Index integrity: the ids of the hash index are the ids of the    *)
(* linked sequence, each id occurs once in the sequence, find(id) returns  *)
(* the product of that id for exactly the ids add_product accepted, and    *)
(* to_list() gives the products in the order they were accepted.           *)
C15_IndexIntegrity ==
  /\ DOMAIN index = {products[i].id : i \in DOMAIN products}
  /\ \A i, j \in DOMAIN products : products[i].id = products[j].id => i = j
  /\ \A pid \in PIDs \cup {0, 3} :
       /\ (find(Self, pid) # None) <=> (pid \in {inserted[i] : i \in DOMAIN inserted})
       /\ find(Self, pid) # None => products[find(Self, pid)].id = pid
  /\ [i \in DOMAIN to_list(Self) |-> to_list(Self)[i].id] = inserted

\* two products, the higher id accepted first, with a reservation made since
C15_Witness ==
  /\ inserted = <<2, 1>>
  /\ cart # <<>>
  /\ last.op = "undo_last"

(* C16 -- Cart entries are always strictly positive: every cart entry has  *)
(* a quantity > 0 and the id of a product in the inventory, no id has two  *)
(* entries, and an undo that brings an entry to zero removes it.           *)
C16_CartPositive ==
  /\ \A i \in DOMAIN cart : cart[i][2] > 0 /\ cart[i][1] \in DOMAIN index
  /\ \A i, j \in DOMAIN cart : cart[i][1] = cart[j][1] => i = j
  /\ undo_stack # <<>> =>
       LET top == undo_stack[Len(undo_stack)]
           after == undo_last(Self).s.cart
       IN /\ InCart(cart, top[2]) = top[3] => top[2] \notin CartKeys(after)
          /\ InCart(cart, top[2]) > top[3] =>
               InCart(after, top[2]) = InCart(cart, top[2]) - top[3]
          /\ \A i \in DOMAIN after : after[i][2] > 0

\* the undo of the reservation that had created the only cart entry
C16_Witness ==
  /\ last.ret = "Undone"
  /\ before.phase = "undone"
  /\ before.cart = <<>>
  /\ cart = <<>>
  /\ products # <<>>

(* C17 -- Stock never goes negative and never exceeds what was added:      *)
(* products being added with a non-negative quantity (the handler refuses  *)
(* the others), every product's quantity q satisfies                       *)
(* 0 <= q <= the quantity it was added with, and what is reserved in the   *)
(* cart for it, over all its reservations, never exceeds that quantity.    *)
C17_StockBounds ==
  \A pid \in DOMAIN index :
    /\ added[pid] >= 0
    /\ 0 <= Quantity(products, index, pid)
    /\ Quantity(products, index, pid) <= added[pid]
    /\ InCart(cart, pid) <= added[pid]
    /\ \A q \in ReserveQtys :
         LET r == add_to_cart(Self, pid, q)
         IN r.ret = "Added" => Quantity(r.s.products, r.s.index, pid) >= 0

\* the whole stock reserved in two steps, and a third reservation refused
C17_Witness ==
  /\ last.op = "add_to_cart"
  /\ last.ret = "Not enough stock available."
  /\ Quantity(products, index, last.pid) = 0
  /\ InCart(cart, last.pid) = added[last.pid]
  /\ Len(undo_stack) >= 2

(* C18 -- Heap superset invariant: after every operation the low-stock     *)
(* heap has, for every product of the inventory, at least one entry        *)
(* (current quantity, id); every change of a quantity adds an entry with   *)
(* the new quantity, and no operation leaves the heap with fewer copies    *)
(* of an entry than it had.                                                *)
Count(h, e) == Cardinality({i \in DOMAIN h : h[i] = e})

C18_HeapSuperset ==
  /\ [](\A pid \in DOMAIN index :
          Count(heap, <<Quantity(products, index, pid), pid>>) >= 1)
  /\ [][ /\ heap' # heap =>
              \A e \in {heap[i] : i \in DOMAIN heap} : Count(heap', e) >= Count(heap, e)
         /\ products' # products =>
              /\ \A pid \in DOMAIN index :
                   Quantity(products', index', pid) # Quantity(products, index, pid) =>
                     Count(heap', <<Quantity(products', index', pid), pid>>)
                       > Count(heap, <<Quantity(products', index', pid), pid>>)
              /\ \A pid \in DOMAIN index' \ DOMAIN index :
                   Count(heap', <<Quantity(products', index', pid), pid>>) = 1
       ]_vars

\* a low-stock query has popped and pushed back a heap holding a stale entry
C18_Witness ==
  /\ last.op = "k_lowest_stock"
  /\ last.k >= 1
  /\ Len(heap) >= 3
  /\ \E i \in DOMAIN heap :
       heap[i][1] # Quantity(products, index, heap[i][2])

(* C19 -- k_lowest_stock is a pure read: for every k, k <= 0 and k larger  *)
(* than the heap included, the heap holds the same entries as often after  *)
(* the call as before, quantities, cart and undo stack are unchanged, and  *)
(* a second call with the same k returns the same sequence of products.    *)
C19_LowStockPureRead ==
  /\ [](k_lowest_stock(Self, -1) = [s |-> Self, ret |-> <<>>])
  /\ [](last.op = "k_lowest_stock" =>
          k_lowest_stock(Self, last.k) = [s |-> Self, ret |-> last.results])
  /\ [][ last'.op = "k_lowest_stock" =>
           /\ Len(heap') = Len(heap)
           /\ \A e \in {heap[i] : i \in DOMAIN heap} : Count(heap', e) = Count(heap, e)
           /\ UNCHANGED <<products, index, cart, undo_stack>>
           /\ last'.k <= 0 => last'.results = <<>> /\ heap' = heap
           /\ (last.op = "k_lowest_stock" /\ last.k = last'.k) =>
                last'.results = last.results
       ]_vars

\* the program asked for more products than the heap has entries
C19_Witness ==
  /\ last.op = "k_lowest_stock"
  /\ last.k > Len(heap)
  /\ heap # <<>>
  /\ last.results # <<>>

(* C20 -- Undo-stack/cart consistency: every undo stack entry has kind     *)
(* "add" and names a product of the inventory, and for every product id    *)
(* the quantities of its undo stack entries add up to cart[id] (0 if       *)
(* absent); so undo_last never takes its "product missing" or "Unknown     *)
(* action" branch and never decrements a cart key that is not there.       *)
RECURSIVE UndoSum(_, _)
UndoSum(stack, pid) ==
  IF stack = <<>> THEN 0
  ELSE (IF Head(stack)[2] = pid THEN Head(stack)[3] ELSE 0) + UndoSum(Tail(stack), pid)

C20_UndoCartConsistent ==
  /\ \A i \in DOMAIN undo_stack :
       undo_stack[i][1] = "add" /\ undo_stack[i][2] \in DOMAIN index
  /\ \A pid \in PIDs \cup CartKeys(cart) : UndoSum(undo_stack, pid) = InCart(cart, pid)
  /\ undo_last(Self).ret \in {"Undone", "Nothing to undo."}
  /\ last.op = "undo_last" => last.ret \in {"Undone", "Nothing to undo."}

\* an undo done while an earlier reservation remains to be undone
C20_Witness ==
  /\ last.op = "undo_last"
  /\ last.ret = "Undone"
  /\ undo_stack # <<>>
  /\ cart # <<>>

(* C21 -- Frame of billing operations: add_to_cart, undo_last,             *)
(* compute_totals, checkout and clear_cart never add, remove or reorder    *)
(* products and never change an id, a name or a price; a quantity changes  *)
(* only for the product the operation names or a product in the cart. A    *)
(* successful add_product changes neither the cart, the undo stack, nor    *)
(* any existing product.                                                   *)
Touched ==
  IF last'.op = "add_to_cart" THEN {last'.pid}
  ELSE IF last'.op = "undo_last" /\ undo_stack # <<>>
  THEN {undo_stack[Len(undo_stack)][2]}
  ELSE IF last'.op = "clear_cart" THEN CartKeys(cart)
  ELSE {}

C21_BillingFrame ==
  /\ [](\A s \in {compute_totals(Self)} :
          s = [Self EXCEPT !.subtotal = s.subtotal, !.discount = s.discount])
  /\ [][ /\ last'.op \in {"add_to_cart", "undo_last", "checkout", "clear_cart"} =>
              /\ index' = index
              /\ Len(products') = Len(products)
              /\ \A i \in DOMAIN products :
                   /\ products'[i].id = products[i].id
                   /\ products'[i].name = products[i].name
                   /\ products'[i].price = products[i].price
                   /\ products'[i].quantity # products[i].quantity =>
                        products[i].id \in Touched
         /\ last'.ret = "Product added" =>
              /\ cart' = cart
              /\ undo_stack' = undo_stack
              /\ Len(products') = Len(products) + 1
              /\ SubSeq(products', 1, Len(products)) = products
              /\ \A pid \in DOMAIN index : index'[pid] = index[pid]
       ]_vars

\* a cart with a reservation of one of two products has been cleared
C21_Witness ==
  /\ last.op = "clear_cart"
  /\ before.phase = "cleared"
  /\ before.cart # <<>>
  /\ Len(products) = 2
  /\ products # before.products

(* C22 -- Interleaving hazard: two add_to_cart calls on one product, run   *)
(* by two callers and interleaved between the stock check, the stock       *)
(* update, the cart update and the undo push, can reach a state that       *)
(* breaks the stock/cart pairing (stock below zero); as long as every      *)
(* call has run to completion before the next one started, stock is never  *)
(* below zero and, between calls, stock plus cart equals the stock added   *)
(* and the undo entries add up to the cart.                                *)
C22_SerialCallsKeepPairing ==
  ~overlapped =>
    \A pid \in DOMAIN index :
      /\ Quantity(products, index, pid) >= 0
      /\ Quiet =>
           /\ Quantity(products, index, pid) + InCart(cart, pid) = added[pid]
           /\ UndoSum(undo_stack, pid) = InCart(cart, pid)

\* two overlapping calls have both returned "Added" and left the stock
\* below zero
C22_Witness ==
  /\ overlapped
  /\ Quiet
  /\ last.ret = "Added"
  /\ \E pid \in DOMAIN index : Quantity(products, index, pid) < 0

====
